---- MODULE Spec2Model ----
(***************************************************************************)
(* Model of src/schemas/user.py: the UserCreate registration schema.       *)
(*                                                                         *)
(* A request is constructed from three text fields.  The endpoint may set  *)
(* the class attribute UserCreate.db_session before the model is           *)
(* validated; the framework then runs the field validators in declaration  *)
(* order (username, email, password).  A validator either returns the      *)
(* value or raises; any exception raised is not a ValueError, so it leaves *)
(* the framework at once and ends the validation of the request.           *)
(*                                                                         *)
(* Text is a sequence of characters; a character is a one-token string.    *)
(* Characters outside ASCII and control characters are named tokens:       *)
(*   "SP" space, "LF" newline, "e_acute" U+00E9, "arabic3" U+0663.          *)
(***************************************************************************)
EXTENDS Integers, Sequences, FiniteSets, TLC

VARIABLES db_session, request, pc, attached, results, trace, outcome

vars == <<db_session, request, pc, attached, results, trace, outcome>>

----------------------------------------------------------------------------
(* Character classes of the regular expressions used by the validators.    *)

AsciiUpper ==
    {"A","B","C","D","E","F","G","H","I","J","K","L","M",
     "N","O","P","Q","R","S","T","U","V","W","X","Y","Z"}

AsciiLower ==
    {"a","b","c","d","e","f","g","h","i","j","k","l","m",
     "n","o","p","q","r","s","t","u","v","w","x","y","z"}

AsciiDigit == {"0","1","2","3","4","5","6","7","8","9"}

\* Characters outside ASCII that Python's str patterns classify as word
\* characters (letters and decimal digits of other scripts).
UnicodeLetters == {"e_acute"}

UnicodeDigits == {"arabic3"}

\* \w on a str pattern: Unicode word characters plus the underscore.
WordChars ==
    AsciiUpper \cup AsciiLower \cup AsciiDigit \cup {"_"}
        \cup UnicodeLetters \cup UnicodeDigits

\* \d on a str pattern: every Unicode decimal digit.
DigitChars == AsciiDigit \cup UnicodeDigits

\* [!@#$%^&*(),.?\":{}|<>]
SpecialChars ==
    {"!","@","#","$","%","^","&","*","(",")",",",".","?","\"",":",
     "{","}","|","<",">"}

\* [a-zA-Z0-9_.+-]
EmailLocalChars ==
    AsciiUpper \cup AsciiLower \cup AsciiDigit \cup {"_", ".", "+", "-"}

\* [a-zA-Z0-9-]
EmailDomainChars == AsciiUpper \cup AsciiLower \cup AsciiDigit \cup {"-"}

\* [a-zA-Z0-9-.]
EmailTldChars == AsciiUpper \cup AsciiLower \cup AsciiDigit \cup {"-", "."}

----------------------------------------------------------------------------
(* Regular-expression matching.                                            *)

\* `$` without re.MULTILINE: at the end of the string, or just before a
\* newline that is the last character of the string.
AtDollar(s, pos) ==
    \/ pos = Len(s) + 1
    \/ pos = Len(s) /\ s[pos] = "LF"

RECURSIVE RunLength(_, _, _)
\* Number of consecutive characters of class cls starting at position i.
RunLength(s, cls, i) ==
    IF i > Len(s) \/ s[i] \notin cls THEN 0
    ELSE 1 + RunLength(s, cls, i + 1)

\* re.match(r"^\w+$", s): a run of one or more word characters from the
\* start (any length the greedy run allows), followed by `$`.
ReMatchWord(s) ==
    \E k \in 1..RunLength(s, WordChars, 1) : AtDollar(s, k + 1)

\* re.match(r"(^[a-zA-Z0-9_.+-]+@[a-zA-Z0-9-]+\.[a-zA-Z0-9-.]+$)", s)
ReMatchEmail(s) ==
    \E a \in 1..RunLength(s, EmailLocalChars, 1) :
        /\ a + 1 <= Len(s)
        /\ s[a + 1] = "@"
        /\ \E d \in 1..RunLength(s, EmailDomainChars, a + 2) :
              /\ a + 1 + d + 1 <= Len(s)
              /\ s[a + 1 + d + 1] = "."
              /\ \E t \in 1..RunLength(s, EmailTldChars, a + d + 3) :
                    AtDollar(s, a + d + 3 + t)

RECURSIVE ReSearch(_, _, _)
\* re.search(r"[cls]", s), scanning from position i.
ReSearch(s, cls, i) ==
    IF i > Len(s) THEN FALSE
    ELSE IF s[i] \in cls THEN TRUE
    ELSE ReSearch(s, cls, i + 1)

----------------------------------------------------------------------------
(* Values raised and returned by the validators.                           *)

MinUsernameLen == 3

MaxUsernameLen == 30

MinPasswordLen == 8

HTTP_400_BAD_REQUEST == 400

DetailUsernameLength == "Username must be between 3 and 30 characters"

DetailUsernameCharset ==
    "Username can only contain letters, numbers, and underscores"

DetailUsernameDuplicate == "Username or email already registered"

DetailEmailFormat == "Invalid email address"

DetailEmailDuplicate == "Email already registered"

DetailPasswordLength == "Password must be at least 8 characters long"

DetailPasswordUpper == "Password must contain at least one uppercase letter"

DetailPasswordLower == "Password must contain at least one lowercase letter"

DetailPasswordDigit == "Password must contain at least one digit"

DetailPasswordSpecial ==
    "Password must contain at least one special character"

\* The value of UserCreate.db_session before any endpoint has set it.
None == "None"

\* What a validator did: kind is "return" or the class of the exception
\* raised; session is the value of cls.db_session the validator read
\* ("unread" if it never evaluated it); lookup tells whether the validator
\* reached its user query and how the query ended.
Return(value, session, lookup) ==
    [kind |-> "return", status |-> 0, detail |-> "", value |-> value,
     session |-> session, lookup |-> lookup]

\* raise HTTPException(status_code=400, detail=...)
RaiseHTTP(detail, session, lookup) ==
    [kind |-> "HTTPException", status |-> HTTP_400_BAD_REQUEST,
     detail |-> detail, value |-> <<>>, session |-> session,
     lookup |-> lookup]

\* An exception raised by the query expression itself leaves the validator.
RaiseFrom(exc, session) ==
    [kind |-> exc, status |-> 0, detail |-> "", value |-> <<>>,
     session |-> session, lookup |-> "failed"]

Pending ==
    [kind |-> "pending", status |-> 0, detail |-> "", value |-> <<>>,
     session |-> "unread", lookup |-> "none"]

----------------------------------------------------------------------------
(* The stored users and the query of the uniqueness checks.                *)

Rep(c, n) == [i \in 1..n |-> c]

\* Rows of the users table that the queries would read.
StoredUsers ==
    { [username |-> Rep("a", 3), email |-> <<"a", "@", "b", ".", "c">>],
      [username |-> Rep("a", 29) \o <<"_">>,
       email |-> <<"z", "@", "b", ".", "c">>] }

\* Attributes that class UserCreate defines (its fields, the class variable
\* and the validators); pydantic.BaseModel adds none named `query`.
ClassAttrs ==
    {"username", "email", "password", "db_session",
     "validate_username", "validate_email", "validate_password"}

\* cls.query(User).filter(User.username == value).first(): the attribute
\* `query` is looked up on the class, not on cls.db_session.  Looking up an
\* attribute the class does not have raises AttributeError; otherwise the
\* first row whose username column equals value, or None.
QueryFirstByUsername(value) ==
    IF "query" \notin ClassAttrs
    THEN [exc |-> "AttributeError", found |-> FALSE]
    ELSE [exc |-> "none",
          found |-> \E u \in StoredUsers : u.username = value]

\* Variant of Truthy: the guard of the uniqueness check always taken.
TruthyAlways(session) == TRUE

\* Truth value of cls.db_session: None is false, a Session object is true.
Truthy(session) == session # None

----------------------------------------------------------------------------
(* The field validators.  cls_db_session is the value of cls.db_session at *)
(* the moment the validator evaluates it.                                  *)

\* Variant of validate_username: the uniqueness check made before the
\* length and character checks.
validate_username_lookup_first(username, cls_db_session) ==
    LET existing_user == QueryFirstByUsername(username) IN
    IF Truthy(cls_db_session) /\ existing_user.exc # "none"
    THEN RaiseFrom(existing_user.exc, cls_db_session)
    ELSE IF Truthy(cls_db_session) /\ existing_user.found
    THEN RaiseHTTP(DetailUsernameDuplicate, cls_db_session, "found")
    ELSE IF ~(MinUsernameLen <= Len(username)
              /\ Len(username) <= MaxUsernameLen)
    THEN RaiseHTTP(DetailUsernameLength, cls_db_session, "none")
    ELSE IF ~ReMatchWord(username)
    THEN RaiseHTTP(DetailUsernameCharset, cls_db_session, "none")
    ELSE Return(username, cls_db_session, "none")

\* Variant of validate_username: an exception of the query is caught and
\* the username is treated as not registered.
validate_username_swallow(username, cls_db_session) ==
    IF ~(MinUsernameLen <= Len(username) /\ Len(username) <= MaxUsernameLen)
    THEN RaiseHTTP(DetailUsernameLength, "unread", "none")
    ELSE IF ~ReMatchWord(username)
    THEN RaiseHTTP(DetailUsernameCharset, "unread", "none")
    ELSE IF Truthy(cls_db_session)
    THEN LET existing_user == QueryFirstByUsername(username) IN
         IF existing_user.exc # "none"
         THEN Return(username, cls_db_session, "failed")
         ELSE IF existing_user.found
         THEN RaiseHTTP(DetailUsernameDuplicate, cls_db_session, "found")
         ELSE Return(username, cls_db_session, "notfound")
    ELSE Return(username, cls_db_session, "none")

validate_username(username, cls_db_session) ==
    IF ~(MinUsernameLen <= Len(username) /\ Len(username) <= MaxUsernameLen)
    THEN RaiseHTTP(DetailUsernameLength, "unread", "none")
    ELSE IF ~ReMatchWord(username)
    THEN RaiseHTTP(DetailUsernameCharset, "unread", "none")
    ELSE IF Truthy(cls_db_session)
    THEN LET existing_user == QueryFirstByUsername(username) IN
         IF existing_user.exc # "none"
         THEN RaiseFrom(existing_user.exc, cls_db_session)
         ELSE IF existing_user.found
         THEN RaiseHTTP(DetailUsernameDuplicate, cls_db_session, "found")
         ELSE Return(username, cls_db_session, "notfound")
    ELSE Return(username, cls_db_session, "none")

validate_email(email, cls_db_session) ==
    IF ~ReMatchEmail(email)
    THEN RaiseHTTP(DetailEmailFormat, "unread", "none")
    ELSE IF Truthy(cls_db_session)
    THEN LET existing_user == QueryFirstByUsername(email) IN
         IF existing_user.exc # "none"
         THEN RaiseFrom(existing_user.exc, cls_db_session)
         ELSE IF existing_user.found
         THEN RaiseHTTP(DetailEmailDuplicate, cls_db_session, "found")
         ELSE Return(email, cls_db_session, "notfound")
    ELSE Return(email, cls_db_session, "none")

\* Variant of validate_password: the lowercase check made before the
\* uppercase check.
validate_password_lower_first(password) ==
    IF Len(password) < MinPasswordLen
    THEN RaiseHTTP(DetailPasswordLength, "unread", "none")
    ELSE IF ~ReSearch(password, AsciiLower, 1)
    THEN RaiseHTTP(DetailPasswordLower, "unread", "none")
    ELSE IF ~ReSearch(password, AsciiUpper, 1)
    THEN RaiseHTTP(DetailPasswordUpper, "unread", "none")
    ELSE IF ~ReSearch(password, DigitChars, 1)
    THEN RaiseHTTP(DetailPasswordDigit, "unread", "none")
    ELSE IF ~ReSearch(password, SpecialChars, 1)
    THEN RaiseHTTP(DetailPasswordSpecial, "unread", "none")
    ELSE Return(password, "unread", "none")

validate_password(password) ==
    IF Len(password) < MinPasswordLen
    THEN RaiseHTTP(DetailPasswordLength, "unread", "none")
    ELSE IF ~ReSearch(password, AsciiUpper, 1)
    THEN RaiseHTTP(DetailPasswordUpper, "unread", "none")
    ELSE IF ~ReSearch(password, AsciiLower, 1)
    THEN RaiseHTTP(DetailPasswordLower, "unread", "none")
    ELSE IF ~ReSearch(password, DigitChars, 1)
    THEN RaiseHTTP(DetailPasswordDigit, "unread", "none")
    ELSE IF ~ReSearch(password, SpecialChars, 1)
    THEN RaiseHTTP(DetailPasswordSpecial, "unread", "none")
    ELSE Return(password, "unread", "none")

----------------------------------------------------------------------------
(* Requests and the inputs they carry.                                     *)

\* Longest varying suffix appended to the fixed prefixes of the inputs.
MaxTail == 1

Requests == {"r1", "r2"}

\* The database session opened for request r, named after the request.
SessionOf(r) == r

Tails(chars) == UNION { [1..n -> chars] : n \in 0..MaxTail }

UsernameInputs ==
    { Rep("a", n) \o t :
        n \in {MinUsernameLen - 2, MinUsernameLen - 1,
               MaxUsernameLen - 1, MaxUsernameLen},
        t \in Tails({"a", "_", "SP", "LF", "e_acute"}) }

EmailInputs ==
    { p \o t :
        p \in { <<"a", "@", "b", ".", "c">>,
                <<"z", "@", "b", ".">>,
                <<"a", "@", "b">>,
                <<"a", "b", ".", "c">>,
                <<"@", "b", ".", "c">>,
                <<"a", "@", ".", "c">>,
                <<"a", "+", "_", "@", "b", "-", ".", "c">>,
                <<"e_acute", "@", "b", ".", "c">> },
        t \in Tails({"c", ".", "LF", "SP"}) }

PasswordInputs ==
    { p \o t :
        p \in { Rep("a", MinPasswordLen - 1),
                <<"A", "a", "1", "!">> \o Rep("a", MinPasswordLen - 5),
                <<"A">> \o Rep("a", MinPasswordLen - 1),
                Rep("A", MinPasswordLen - 1) \o <<"1">>,
                <<"1", "!">> \o Rep("a", MinPasswordLen - 2),
                <<"A", "a", "!">> \o Rep("e_acute", MinPasswordLen - 3),
                Rep("!", MinPasswordLen) },
        t \in Tails({"A", "a", "1", "!", "arabic3"}) }

UsernameSamples == { Rep("a", 2) \o <<"_">>, Rep("a", 3) }

EmailSamples == { <<"a", "@", "b", ".", "c">>, <<"a", "@", "b">> }

PasswordSamples ==
    { <<"A", "a", "1", "!">> \o Rep("a", MinPasswordLen - 4),
      Rep("a", MinPasswordLen - 1) }

Triples(us, es, ps) ==
    { [username |-> u, email |-> e, password |-> p] :
        u \in us, e \in es, p \in ps }

\* One field ranges over its whole input set while the other two range over
\* a valid and an invalid sample.
RequestInputs ==
    Triples(UsernameInputs, EmailSamples, PasswordSamples)
        \cup Triples(UsernameSamples, EmailInputs, PasswordSamples)
        \cup Triples(UsernameSamples, EmailSamples, PasswordInputs)

BackgroundInputs == Triples(UsernameSamples, {<<"a", "@", "b", ".", "c">>},
                            PasswordSamples)

----------------------------------------------------------------------------
(* The state machine.                                                      *)

\* Fields of UserCreate in declaration order.
Fields == <<"username", "email", "password">>

FieldSet == {Fields[i] : i \in 1..Len(Fields)}

IndexOf(field) == CHOOSE i \in 1..Len(Fields) : Fields[i] = field

NoOutcome == [kind |-> "none", status |-> 0, detail |-> "", field |-> ""]

Accepted == [kind |-> "accepted", status |-> 0, detail |-> "", field |-> ""]

Init ==
    /\ db_session = None
    /\ \E x \in RequestInputs, y \in BackgroundInputs :
          request = [r \in Requests |-> IF r = "r1" THEN x ELSE y]
    /\ pc = [r \in Requests |-> "start"]
    /\ attached = [r \in Requests |-> FALSE]
    /\ results = [r \in Requests |-> [f \in FieldSet |-> Pending]]
    /\ trace = [r \in Requests |-> <<>>]
    /\ outcome = [r \in Requests |-> NoOutcome]

\* Variant of NextPc: the remaining fields are validated after a failure,
\* as when failures are collected.
NextPcCollect(field, result) ==
    IF IndexOf(field) = Len(Fields) THEN "done"
    ELSE Fields[IndexOf(field) + 1]

\* Where the validation of a request goes after a field validator ended:
\* an exception leaves the model's construction, a returned value lets the
\* next declared field be validated.
NextPc(field, result) ==
    IF result.kind # "return" THEN "done"
    ELSE IF IndexOf(field) = Len(Fields) THEN "done"
    ELSE Fields[IndexOf(field) + 1]

\* What the caller of UserCreate(...) gets.
OutcomeAfter(field, result, old) ==
    IF result.kind # "return"
    THEN [kind |-> result.kind, status |-> result.status,
          detail |-> result.detail, field |-> field]
    ELSE IF IndexOf(field) = Len(Fields) THEN Accepted
    ELSE old

RunValidator(r, field, result) ==
    /\ results' = [results EXCEPT ![r][field] = result]
    /\ trace' = [trace EXCEPT ![r] = Append(@, field)]
    /\ pc' = [pc EXCEPT ![r] = NextPc(field, result)]
    /\ outcome' = [outcome EXCEPT ![r] = OutcomeAfter(field, result, @)]
    /\ UNCHANGED <<db_session, request, attached>>

\* The endpoint sets the class attribute to the session of its request
\* before it validates the request.
SetDbSession(r) ==
    /\ pc[r] = "start"
    /\ db_session' = SessionOf(r)
    /\ attached' = [attached EXCEPT ![r] = TRUE]
    /\ pc' = [pc EXCEPT ![r] = "username"]
    /\ UNCHANGED <<request, results, trace, outcome>>

ValidateUsername(r) ==
    /\ pc[r] \in {"start", "username"}
    /\ RunValidator(r, "username",
                    validate_username(request[r].username, db_session))

ValidateEmail(r) ==
    /\ pc[r] = "email"
    /\ RunValidator(r, "email",
                    validate_email(request[r].email, db_session))

ValidatePassword(r) ==
    /\ pc[r] = "password"
    /\ RunValidator(r, "password", validate_password(request[r].password))

Next ==
    \E r \in Requests :
        \/ SetDbSession(r)
        \/ ValidateUsername(r)
        \/ ValidateEmail(r)
        \/ ValidatePassword(r)

Spec == Init /\ [][Next]_vars

----------------------------------------------------------------------------
(* Vocabulary of the properties.                                           *)

Validated(r, f) == results[r][f].kind # "pending"

\* The validator of field f of request r found a session in db_session.
SawSession(r, f) == results[r][f].session \notin {"unread", None}

\* [A-Za-z0-9_]
AllowedUsernameChars == AsciiUpper \cup AsciiLower \cup AsciiDigit \cup {"_"}

LengthInRange(u) == MinUsernameLen <= Len(u) /\ Len(u) <= MaxUsernameLen

HasForbiddenChar(u) == \E i \in DOMAIN u : u[i] \notin AllowedUsernameChars

SyntacticallyValidUsername(u) == LengthInRange(u) /\ ~HasForbiddenChar(u)

UsernameStored(u) == \E s \in StoredUsers : s.username = u

EmailStored(e) == \E s \in StoredUsers : s.email = e

Rejected(res, detail) ==
    /\ res.kind = "HTTPException"
    /\ res.status = HTTP_400_BAD_REQUEST
    /\ res.detail = detail

Has(p, chars) == \E i \in DOMAIN p : p[i] \in chars

\* The detail of the first password check that p fails, "" if it fails none.
PasswordDefect(p) ==
    CASE Len(p) < MinPasswordLen -> DetailPasswordLength
      [] Len(p) >= MinPasswordLen /\ ~Has(p, AsciiUpper)
            -> DetailPasswordUpper
      [] Len(p) >= MinPasswordLen /\ Has(p, AsciiUpper)
            /\ ~Has(p, AsciiLower)
            -> DetailPasswordLower
      [] Len(p) >= MinPasswordLen /\ Has(p, AsciiUpper)
            /\ Has(p, AsciiLower) /\ ~Has(p, DigitChars)
            -> DetailPasswordDigit
      [] Len(p) >= MinPasswordLen /\ Has(p, AsciiUpper)
            /\ Has(p, AsciiLower) /\ Has(p, DigitChars)
            /\ ~Has(p, SpecialChars)
            -> DetailPasswordSpecial
      [] OTHER -> ""

\* The outcome that the syntactic rules alone give a request.
SyntacticOutcome(req) ==
    LET http(detail, field) ==
            [kind |-> "HTTPException", status |-> HTTP_400_BAD_REQUEST,
             detail |-> detail, field |-> field]
    IN  IF ~LengthInRange(req.username)
        THEN http(DetailUsernameLength, "username")
        ELSE IF ~ReMatchWord(req.username)
        THEN http(DetailUsernameCharset, "username")
        ELSE IF ~ReMatchEmail(req.email)
        THEN http(DetailEmailFormat, "email")
        ELSE IF PasswordDefect(req.password) # ""
        THEN http(PasswordDefect(req.password), "password")
        ELSE Accepted

----------------------------------------------------------------------------
(* Properties.                                                             *)

\* C1: whenever validate_username found a session and a stored user has the
\* candidate username (which is syntactically valid), the validator ended
\* in the HTTP 400 rejection "duplicate", and in nothing else.
C1_DuplicateUsernameRejected ==
    \A r \in Requests :
        ( /\ Validated(r, "username")
          /\ SawSession(r, "username")
          /\ SyntacticallyValidUsername(request[r].username)
          /\ UsernameStored(request[r].username) )
        => Rejected(results[r]["username"], DetailUsernameDuplicate)

\* C2: whenever validate_email found a session (the email is then well
\* formed), it ended in the rejection "duplicate" exactly when a stored
\* user has the candidate email.
C2_EmailDuplicateIffStoredEmail ==
    \A r \in Requests :
        ( Validated(r, "email") /\ SawSession(r, "email") )
        => ( Rejected(results[r]["email"], DetailEmailDuplicate)
               <=> EmailStored(request[r].email) )

\* C3: a request that attached its own session reads, in every validator
\* that evaluates db_session, the session it attached itself.
C3_OwnSessionOnly ==
    \A r \in Requests :
        attached[r] =>
            \A f \in FieldSet :
                results[r][f].session \in {"unread", SessionOf(r)}

\* C4: the validators of a request run in the order username, email,
\* password; a validator runs only after every earlier one returned; when
\* the outcome is an exception it is the one of the last validator run, all
\* earlier fields were accepted, and no later field was checked or looked up.
C4_FieldOrderFirstFailureWins ==
    \A r \in Requests :
        /\ Len(trace[r]) <= Len(Fields)
        /\ trace[r] = SubSeq(Fields, 1, Len(trace[r]))
        /\ \A i \in 1..Len(Fields) :
              Validated(r, Fields[i]) <=> i <= Len(trace[r])
        /\ \A i \in 1..(Len(trace[r]) - 1) :
              results[r][Fields[i]].kind = "return"
        /\ outcome[r].kind \notin {"none", "accepted"} =>
              LET k == IndexOf(outcome[r].field) IN
              /\ pc[r] = "done"
              /\ Len(trace[r]) = k
              /\ outcome[r].kind = results[r][Fields[k]].kind
              /\ outcome[r].detail = results[r][Fields[k]].detail
              /\ \A i \in 1..(k - 1) : results[r][Fields[i]].kind = "return"
              /\ \A i \in (k + 1)..Len(Fields) :
                    results[r][Fields[i]] = Pending
        /\ outcome[r].kind = "accepted" =>
              \A i \in 1..Len(Fields) : results[r][Fields[i]].kind = "return"

\* A request rejected at its email: the username was accepted before and the
\* password was never checked.
C4_Witness ==
    \E r \in Requests :
        /\ Rejected(outcome[r], DetailEmailFormat)
        /\ outcome[r].field = "email"
        /\ results[r]["username"].kind = "return"
        /\ results[r]["password"] = Pending
        /\ PasswordDefect(request[r].password) # ""

\* C5: every username of length 3..30 over [A-Za-z0-9_] that no stored user
\* has is accepted and returned unchanged, with or without a session.
C5_ValidUsernameAccepted ==
    \A r \in Requests :
        ( /\ Validated(r, "username")
          /\ SyntacticallyValidUsername(request[r].username)
          /\ ~UsernameStored(request[r].username) )
        => /\ results[r]["username"].kind = "return"
           /\ results[r]["username"].value = request[r].username

\* C6: every username of length 3..30 with a character outside
\* [A-Za-z0-9_] is rejected with the reason "charset".
C6_ForbiddenCharRejected ==
    \A r \in Requests :
        ( /\ Validated(r, "username")
          /\ LengthInRange(request[r].username)
          /\ HasForbiddenChar(request[r].username) )
        => Rejected(results[r]["username"], DetailUsernameCharset)

C8_PasswordRules ==
    \A r \in Requests :
        LET p == request[r].password
            res == results[r]["password"]
        IN  Validated(r, "password") =>
              /\ res.kind = "return" <=>
                    ( /\ Len(p) >= MinPasswordLen
                      /\ Has(p, AsciiUpper)
                      /\ Has(p, AsciiLower)
                      /\ Has(p, DigitChars)
                      /\ Has(p, SpecialChars) )
              /\ res.kind = "return" => res.value = p
              /\ res.kind # "return" => Rejected(res, PasswordDefect(p))

\* A password of 8 characters without letters or digits: only the earliest
\* failing check, the uppercase one, is reported.
C8_Witness ==
    \E r \in Requests :
        LET p == request[r].password IN
        /\ Len(p) >= MinPasswordLen
        /\ ~Has(p, AsciiUpper)
        /\ ~Has(p, AsciiLower)
        /\ ~Has(p, DigitChars)
        /\ Rejected(results[r]["password"], DetailPasswordUpper)

\* C9: a validator that finds no session in db_session makes no lookup and
\* raises nothing but its syntactic rejections; a request none of whose
\* validators found a session ends with the outcome of the syntactic rules.
C9_NoSessionNoLookup ==
    \A r \in Requests :
        /\ \A f \in FieldSet :
              ( Validated(r, f) /\ ~SawSession(r, f) ) =>
                  /\ results[r][f].lookup = "none"
                  /\ results[r][f].kind \in {"return", "HTTPException"}
                  /\ results[r][f].detail \notin
                        {DetailUsernameDuplicate, DetailEmailDuplicate}
        /\ ( pc[r] = "done" /\ \A f \in FieldSet : ~SawSession(r, f) ) =>
              outcome[r] = SyntacticOutcome(request[r])

\* A request accepted while db_session was None for both of its checks.
C9_Witness ==
    \E r \in Requests :
        /\ pc[r] = "done"
        /\ outcome[r] = Accepted
        /\ results[r]["username"].session = None
        /\ results[r]["email"].session = None

\* C10: a validator whose lookup failed neither returns its value nor raises
\* a validation rejection: the exception of the lookup is the outcome of
\* the request.
C10_LookupFailurePropagates ==
    \A r \in Requests :
        \A f \in FieldSet :
            results[r][f].lookup = "failed" =>
                /\ results[r][f].kind \notin
                      {"return", "HTTPException", "pending"}
                /\ pc[r] = "done"
                /\ outcome[r].kind = results[r][f].kind
                /\ outcome[r].field = f
                /\ outcome[r] # Accepted

\* The lookup of a username failed and the request ended with its exception.
C10_Witness ==
    \E r \in Requests :
        /\ results[r]["username"].lookup = "failed"
        /\ outcome[r].kind = "AttributeError"
        /\ outcome[r].field = "username"

====
